---- MODULE Spec2Model ----
(***************************************************************************)
(* Model of the Windows plugin shim flutter_thermal_printer:               *)
(*   windows/flutter_thermal_printer_plugin.h                              *)
(*   windows/flutter_thermal_printer_plugin.cpp                            *)
(*                                                                         *)
(* The plugin object is held by a std::shared_ptr.  The registrar owns one *)
(* strong reference (captured by the deleter handed to AddPlugin), the     *)
(* channel's method-call handler captures a std::weak_ptr and locks it for *)
(* the duration of each call.  The host may run the handler on several     *)
(* threads and tear the plugin down concurrently, so every access to the   *)
(* shared state (use count, disposed_) is one step of the model.           *)
(***************************************************************************)
EXTENDS Integers, Sequences, FiniteSets, TLC

(* ---------------------------------------------------------------------- *)
(* Bounds                                                                 *)
(* ---------------------------------------------------------------------- *)
NumThreads == 2     \* host threads that may run the handler concurrently
MaxReq == 3         \* requests the caller issues in all

Threads == 1..NumThreads
Host == NumThreads + 1     \* the thread on which the registrar tears down
Workers == Threads \cup {Host}

(* Request names the caller may send (method_call.method_name()). *)
MethodNames == {"getPlatformVersion", "printText"}

VARIABLES
  hostPc,      \* registrar: "start" | "running" | "dtor" | "done"
  pc,          \* pc[t], handler invocation on thread t: "idle" | "handle" | "ret" | "dtor"
  strong,      \* use count of the shared_ptr control block
  obj,         \* the plugin object: "none" | "constructed" | "destroyed"
  disposed_,   \* std::atomic<bool> disposed_
  os,          \* the host's answers to IsWindows10OrGreater / 8 / 7
  log,         \* log[t]: the requests of thread t: name, whether it was dispatched
               \* after teardown completed, what is_alive() returned to it, and
               \* the replies it received
  uaf          \* a handler read the plugin object after its destructor had started

vars == <<hostPc, pc, strong, obj, disposed_, os, log, uaf>>

(* ---------------------------------------------------------------------- *)
(* Strings as sequences of characters                                     *)
(* ---------------------------------------------------------------------- *)
StrWindows == <<"W", "i", "n", "d", "o", "w", "s">>
StrWindowsSp == StrWindows \o <<" ">>
Str10Plus == <<"1", "0", "+">>
Str8 == <<"8">>
Str7 == <<"7">>

Contains(s, sub) ==
  \E i \in 1..(Len(s) - Len(sub) + 1) : SubSeq(s, i, i + Len(sub) - 1) = sub

(* ---------------------------------------------------------------------- *)
(* The plugin class                                                       *)
(* ---------------------------------------------------------------------- *)

(* std::atomic<bool> disposed_{false}; *)
InitDisposed == FALSE

(* ~FlutterThermalPrinterPlugin(): disposed_.store(true) *)
DtorStoreNothing == FALSE
DtorStore == TRUE

(* bool is_alive() const { return !disposed_; } *)
is_alive(d) == ~d

(* method_name().compare("getPlatformVersion") == 0 *)
MethodMatchesInverted(name) == name # "getPlatformVersion"
MethodMatches(name) == name = "getPlatformVersion"

(* A version string built by a stream that is not fresh on each call: the *)
(* text of earlier successful calls is still in it.                       *)
VersionStringStale(w10, w8, w7) ==
  LET fresh == StrWindowsSp \o (IF w10 THEN Str10Plus ELSE IF w8 THEN Str8
                                ELSE IF w7 THEN Str7 ELSE <<>>)
      served == \E t \in Threads : \E i \in 1..Len(log[t]) :
                  \E j \in 1..Len(log[t][i].replies) :
                    log[t][i].replies[j].kind = "Success"
  IN  IF served THEN fresh \o fresh ELSE fresh

(* The version string without the leading "Windows ". *)
VersionStringNoPrefix(w10, w8, w7) ==
  IF w10 THEN Str10Plus ELSE IF w8 THEN Str8 ELSE IF w7 THEN Str7 ELSE <<>>

(* std::ostringstream version_stream; version_stream << "Windows "; ...   *)
VersionString(w10, w8, w7) ==
  LET s0 == <<>>
      s1 == s0 \o StrWindowsSp
  IN  IF w10 THEN s1 \o Str10Plus
      ELSE IF w8 THEN s1 \o Str8
      ELSE IF w7 THEN s1 \o Str7
      ELSE s1

ErrDisposed(origin) ==
  [kind |-> "Error", code |-> "DISPOSED", payload |-> <<>>, origin |-> origin]
Success(s) ==
  [kind |-> "Success", code |-> "", payload |-> s, origin |-> "handle"]
NotImplemented ==
  [kind |-> "NotImplemented", code |-> "", payload |-> <<>>, origin |-> "handle"]

(* HandleMethodCall with an else branch that forgets to reply. *)
HandleRepliesNoElse(alive, name, o) ==
  IF ~alive THEN <<ErrDisposed("handle")>>
  ELSE IF MethodMatches(name) THEN <<Success(VersionString(o.w10, o.w8, o.w7))>>
  ELSE <<>>

(* The replies HandleMethodCall sends, in order, given what is_alive()    *)
(* returned, the request name and the host's OS answers.                  *)
HandleReplies(alive, name, o) ==
  IF ~alive THEN <<ErrDisposed("handle")>>
  ELSE IF MethodMatches(name) THEN <<Success(VersionString(o.w10, o.w8, o.w7))>>
  ELSE <<NotImplemented>>

(* ---------------------------------------------------------------------- *)
(* shared_ptr / weak_ptr                                                  *)
(* ---------------------------------------------------------------------- *)

(* weak.lock() yields a non-null pointer iff the use count is not zero. *)
LockSucceedsAlways(s) == TRUE
LockSucceeds(s) == s > 0

(* The use count after a successful weak.lock(). *)
LockedCountRaw(s) == s
LockedCount(s) == s + 1

(* The use count after a shared_ptr is reset or destroyed. *)
ReleasedCount(s) == s - 1

(* ---------------------------------------------------------------------- *)
(* Initial state: nothing registered yet                                  *)
(* ---------------------------------------------------------------------- *)
Init ==
  /\ hostPc = "start"
  /\ pc = [t \in Threads |-> "idle"]
  /\ strong = 0
  /\ obj = "none"
  /\ disposed_ = InitDisposed
  /\ os \in [w10 : BOOLEAN, w8 : BOOLEAN, w7 : BOOLEAN]
  /\ log = [t \in Threads |-> <<>>]
  /\ uaf = FALSE

(* ---------------------------------------------------------------------- *)
(* Actions                                                                *)
(* ---------------------------------------------------------------------- *)

(* RegisterWithRegistrar: make_shared, install the handler (weak capture), *)
(* hand the registrar a deleter owning a copy of the shared_ptr; the local *)
(* shared_ptr goes out of scope at return, leaving use count 1.            *)
RegisterWithRegistrar ==
  /\ hostPc = "start"
  /\ hostPc' = "running"
  /\ obj' = "constructed"
  /\ disposed_' = InitDisposed
  /\ strong' = 1
  /\ UNCHANGED <<pc, os, log, uaf>>

(* The registrar destroys the plugin: the deleter runs plugin.reset().     *)
(* If that was the last strong reference the destructor runs next, still   *)
(* inside reset(), before teardown completes.                              *)
Teardown ==
  /\ hostPc = "running"
  /\ strong' = ReleasedCount(strong)
  /\ hostPc' = IF strong' = 0 THEN "dtor" ELSE "done"
  /\ UNCHANGED <<pc, obj, disposed_, os, log, uaf>>

(* The installed handler is invoked on thread t with a request: it locks   *)
(* the weak_ptr; on failure it replies DISPOSED and returns.               *)
Handler(t, name) ==
  /\ hostPc # "start"
  /\ pc[t] = "idle"
  /\ Cardinality({u \in Threads \X (1..MaxReq) : u[2] <= Len(log[u[1]])}) < MaxReq
  /\ LET after == (hostPc = "done")
     IN  IF LockSucceeds(strong)
         THEN /\ strong' = LockedCount(strong)
              /\ pc' = [pc EXCEPT ![t] = "handle"]
              /\ log' = [log EXCEPT ![t] = Append(@,
                           [name |-> name, after |-> after, alive |-> FALSE,
                            replies |-> <<>>])]
         ELSE /\ strong' = strong
              /\ pc' = pc
              /\ log' = [log EXCEPT ![t] = Append(@,
                           [name |-> name, after |-> after, alive |-> FALSE,
                            replies |-> <<ErrDisposed("lock")>>])]
  /\ UNCHANGED <<hostPc, obj, disposed_, os, uaf>>

(* p->HandleMethodCall(call, std::move(result)): reads disposed_ through   *)
(* is_alive() and replies.  Reading an object whose destructor has started *)
(* is undefined: the read may then return either value.                    *)
HandleMethodCall(t) ==
  /\ pc[t] = "handle"
  /\ LET dtorStarted == obj # "constructed" \/ \E w \in Workers :
                          IF w = Host THEN hostPc = "dtor" ELSE pc[w] = "dtor"
     IN  /\ uaf' = (uaf \/ dtorStarted)
         /\ \E alive \in (IF dtorStarted THEN BOOLEAN ELSE {is_alive(disposed_)}) :
              log' = [log EXCEPT ![t][Len(log[t])] =
                        [@ EXCEPT !.alive = alive,
                                  !.replies = @ \o HandleReplies(alive,
                                                  log[t][Len(log[t])].name, os)]]
  /\ pc' = [pc EXCEPT ![t] = "ret"]
  /\ UNCHANGED <<hostPc, strong, obj, disposed_, os>>

(* The handler lambda returns: the locked shared_ptr p is destroyed.       *)
HandlerReturn(t) ==
  /\ pc[t] = "ret"
  /\ strong' = ReleasedCount(strong)
  /\ pc' = [pc EXCEPT ![t] = IF strong' = 0 THEN "dtor" ELSE "idle"]
  /\ UNCHANGED <<hostPc, obj, disposed_, os, log, uaf>>

(* ~FlutterThermalPrinterPlugin, run by whoever dropped the last strong    *)
(* reference: the registrar's deleter or a returning handler.              *)
Destructor(w) ==
  /\ IF w = Host THEN hostPc = "dtor" ELSE pc[w] = "dtor"
  /\ disposed_' = DtorStore
  /\ obj' = "destroyed"
  /\ IF w = Host
       THEN hostPc' = "done" /\ pc' = pc
       ELSE hostPc' = hostPc /\ pc' = [pc EXCEPT ![w] = "idle"]
  /\ UNCHANGED <<strong, os, log, uaf>>

Next ==
  \/ RegisterWithRegistrar
  \/ Teardown
  \/ \E t \in Threads : \E name \in MethodNames : Handler(t, name)
  \/ \E t \in Threads : HandleMethodCall(t)
  \/ \E t \in Threads : HandlerReturn(t)
  \/ \E w \in Workers : Destructor(w)

Spec == Init /\ [][Next]_vars

(* ---------------------------------------------------------------------- *)
(* Helpers for the properties                                             *)
(* ---------------------------------------------------------------------- *)
Requests == {<<t, i>> : t \in Threads, i \in 1..MaxReq}
Issued(r) == r[2] <= Len(log[r[1]])
Req(r) == log[r[1]][r[2]]
(* the request has run to its reply point *)
Answered(r) ==
  /\ Issued(r)
  /\ (r[2] < Len(log[r[1]]) \/ pc[r[1]] # "handle")

TypeOK ==
  /\ hostPc \in {"start", "running", "dtor", "done"}
  /\ pc \in [Threads -> {"idle", "handle", "ret", "dtor"}]
  /\ strong \in 0..(NumThreads + 1)
  /\ obj \in {"none", "constructed", "destroyed"}
  /\ disposed_ \in BOOLEAN
  /\ uaf \in BOOLEAN

(* ---------------------------------------------------------------------- *)
(* Properties                                                             *)
(* ---------------------------------------------------------------------- *)
IsDisposedError(rep) == rep.kind = "Error" /\ rep.code = "DISPOSED"
GetVersion == "getPlatformVersion"
DtorPending == hostPc = "dtor" \/ \E t \in Threads : pc[t] = "dtor"

(* C1: every request dispatched through the installed handler after the   *)
(* host's teardown has completed is answered with the DISPOSED error,     *)
(* whatever its name and whatever other requests are still in flight.     *)
C1_AfterTeardownDisposed ==
  \A r \in Requests :
    (Answered(r) /\ Req(r).after) =>
      /\ Len(Req(r).replies) = 1
      /\ IsDisposedError(Req(r).replies[1])

(* C2: when teardown interleaves with an in-flight getPlatformVersion     *)
(* request, the request never reads the plugin object after its           *)
(* destructor has started, and it ends with a complete version string     *)
(* (non-empty, containing "Windows") or with the DISPOSED error.          *)
C2_NoUseAfterFree ==
  /\ ~uaf
  /\ \A r \in Requests :
       (Answered(r) /\ Req(r).name = GetVersion) =>
         /\ Len(Req(r).replies) = 1
         /\ \/ IsDisposedError(Req(r).replies[1])
            \/ /\ Req(r).replies[1].kind = "Success"
               /\ Req(r).replies[1].payload # <<>>
               /\ Contains(Req(r).replies[1].payload, StrWindows)

(* a getPlatformVersion request dispatched before teardown has replied   *)
(* with success and is still in flight when teardown has completed        *)
C2_Witness ==
  /\ hostPc = "done"
  /\ \E t \in Threads :
       /\ pc[t] = "ret"
       /\ log[t][Len(log[t])].name = GetVersion
       /\ ~log[t][Len(log[t])].after
       /\ log[t][Len(log[t])].replies[1].kind = "Success"

(* C3: whenever the host has completed teardown, the plugin object is     *)
(* already destroyed: no in-flight handler keeps it alive.                *)
C3_TeardownDestroys == hostPc = "done" => obj = "destroyed"

(* C4: the liveness flag is monotonic: the plugin is Alive from           *)
(* construction until its destructor runs and Disposed afterwards, a      *)
(* Disposed plugin never becomes Alive again, and the flag changes only   *)
(* in the destructor step, never in a step of request handling.           *)
C4_FlagMonotonic ==
  [][ /\ (obj = "constructed" => ~disposed_)
      /\ (obj = "destroyed" => disposed_)
      /\ (obj' = "destroyed" => disposed_')
      /\ (disposed_ => disposed_')
      /\ (disposed_' # disposed_ => (DtorPending /\ obj' = "destroyed" /\ log' = log
                                      /\ strong' = strong)) ]_vars

(* the flag has made its transition and requests were handled before and  *)
(* after it                                                               *)
C4_Witness ==
  /\ disposed_
  /\ \E r \in Requests : Answered(r) /\ Req(r).alive
  /\ \E r \in Requests : Answered(r) /\ Req(r).after

(* C5: every getPlatformVersion request handled while the plugin is alive *)
(* is answered with Success carrying a non-empty string that contains     *)
(* "Windows", for every combination of the host's OS answers.             *)
C5_VersionContainsWindows ==
  \A r \in Requests :
    (Issued(r) /\ Req(r).alive /\ Req(r).name = GetVersion) =>
      /\ Len(Req(r).replies) = 1
      /\ Req(r).replies[1].kind = "Success"
      /\ Req(r).replies[1].payload # <<>>
      /\ Contains(Req(r).replies[1].payload, StrWindows)

(* a host that reports none of the three tiers has answered the request   *)
C5_Witness ==
  /\ ~os.w10 /\ ~os.w8 /\ ~os.w7
  /\ \E r \in Requests :
       Issued(r) /\ Req(r).alive /\ Req(r).name = GetVersion

(* C6: every request handled while the plugin is alive whose name is not  *)
(* "getPlatformVersion" is answered with not-implemented, never with      *)
(* Success and never with the DISPOSED error.                             *)
C6_UnknownNotImplemented ==
  \A r \in Requests :
    (Issued(r) /\ Req(r).alive /\ Req(r).name # GetVersion) =>
      /\ Len(Req(r).replies) = 1
      /\ Req(r).replies[1].kind = "NotImplemented"

C6_Witness ==
  \E r \in Requests : Issued(r) /\ Req(r).alive /\ Req(r).name # GetVersion

(* C7: every request delivered to the handler receives exactly one reply: *)
(* none before its reply point, one from then on, never two; the reply is *)
(* Success with a version string, the DISPOSED error or not-implemented.  *)
C7_ExactlyOneReply ==
  \A r \in Requests :
    Issued(r) =>
      /\ Len(Req(r).replies) <= 1
      /\ Answered(r) => Len(Req(r).replies) = 1
      /\ \A j \in 1..Len(Req(r).replies) :
           LET rep == Req(r).replies[j]
           IN  \/ rep.kind = "Success" /\ rep.payload # <<>>
               \/ IsDisposedError(rep)
               \/ rep.kind = "NotImplemented"

(* all three kinds of reply have been given *)
C7_Witness ==
  /\ \E r \in Requests : Answered(r) /\ Req(r).replies[1].kind = "Success"
  /\ \E r \in Requests : Answered(r) /\ Req(r).replies[1].kind = "NotImplemented"
  /\ \E r \in Requests : Answered(r) /\ IsDisposedError(Req(r).replies[1])

(* the highest tier the host reports, or none *)
HighestTier ==
  IF os.w10 THEN Str10Plus ELSE IF os.w8 THEN Str8 ELSE IF os.w7 THEN Str7 ELSE <<>>

(* C8: every Success payload is "Windows", one space and a non-empty      *)
(* version tier ("10+", "8" or "7"), the highest tier the host reports,   *)
(* for every combination of the host's OS answers.                        *)
C8_VersionFormat ==
  \A r \in Requests :
    Issued(r) =>
      \A j \in 1..Len(Req(r).replies) :
        Req(r).replies[j].kind = "Success" =>
          /\ HighestTier \in {Str10Plus, Str8, Str7}
          /\ Req(r).replies[j].payload = StrWindows \o <<" ">> \o HighestTier

C10_HandleEnteredAlive ==
  /\ \A t \in Threads :
       pc[t] = "handle" =>
         obj = "constructed" /\ ~DtorPending /\ is_alive(disposed_) /\ strong >= 1
  /\ \A r \in Requests :
       Issued(r) =>
         \A j \in 1..Len(Req(r).replies) :
           IsDisposedError(Req(r).replies[j]) =>
             Req(r).replies[j].origin = "lock" /\ ~Req(r).alive

(* one request went through HandleMethodCall and found the plugin alive,  *)
(* another was refused by weak.lock()                                     *)
C10_Witness ==
  /\ \E r \in Requests :
       Answered(r) /\ IsDisposedError(Req(r).replies[1])
  /\ \E r \in Requests : Answered(r) /\ Req(r).alive

====
